---- MODULE Spec2Model ----
(***************************************************************************)
(* MiniMe checkpoint-array storage proofs (token/minime/minime.go) over    *)
(* the ERC20 wrapper (token/erc20/erc20token.go).                          *)
(*                                                                         *)
(* The contract storage is a partial map from storage keys to words; a key *)
(* that was never written reads as the zero word.  Every word carries the  *)
(* block at which it was written, so that a read "as of block b" returns   *)
(* zero for a word written after b.  keccak256 is abstracted by the triple *)
(* (number of hash applications, mapping index, offset), which is          *)
(* injective for the small offsets used here.  One holder is modelled.     *)
(* Block numbers and lengths stay far below 2^63, so the Uint64()/int()    *)
(* conversions of the source do not truncate them.                         *)
(***************************************************************************)
EXTENDS Integers, Sequences, FiniteSets, TLC

\* ---------------------------------------------------------------- bounds
\* Longest checkpoint array planted in the storage.
MaxCount == 4
\* Highest mapping index with planted storage (one past the last candidate).
MaxSlot == 20
\* Token decimals returned by decimals().
Decimals == 1

\* ------------------------------------------------------ program constants
\* The loop of minime.go:48 stopping one candidate early.
maxIterationsForDiscover_OneShort == 20 - 1
maxIterationsForDiscover == 20

\* Width of the block-number half of a packed checkpoint word (2^128 in the
\* contract, scaled down).
BlockRange == 2^7

Balances == {0, 1}
CheckpointBlocks == {60 + 10 * k : k \in 1..MaxCount}
TargetBlocks == {50, 70, 87, 100, 105}

\* An optional block number: {} is Go's nil (latest), {b} is block b.
Nil == {}

\* ----------------------------------------------------------------- errors
NoErr == [kind |-> "nil", cause |-> "nil"]
\* An error of the RPC client: cause is "remote" (node or network failure)
\* or "ctx" (the context was cancelled or its deadline passed).
ClientErr(cause) == [kind |-> cause, cause |-> cause]
\* GetTokenData formats the client error with %s: the chain is lost, the
\* text of the cause is kept.
GetTokenDataErr(cause) == [kind |-> "unable to get token data", cause |-> cause]
ErrSlotNotFound == [kind |-> "storage slot not found", cause |-> "nil"]
ErrCheckpointNotFound == [kind |-> "checkpoint not found", cause |-> "nil"]
ErrNilBalance == [kind |-> "proof of nil has a balance value", cause |-> "nil"]
ErrNilBlock == [kind |-> "proof of nil has a block value", cause |-> "nil"]

Causes == {"remote", "ctx"}

\* ------------------------------------------------------------- rationals
BalanceToRat(b, decimals) == [num |-> b, den |-> 10 ^ decimals]
NilRat == [num |-> 0, den |-> 0]
RatCmp(x, y) ==
    LET l == x.num * y.den
        r == y.num * x.den
    IN  IF l < r THEN -1 ELSE IF l > r THEN 1 ELSE 0

\* ------------------------------------------------------- packed checkpoint
PackMinimeValue(balance, mblock) == balance * BlockRange + mblock
ParseMinimeValue(value, decimals) ==
    [balance |-> BalanceToRat(value \div BlockRange, decimals),
     mblock  |-> value % BlockRange]

VARIABLES
    storage,          \* contract storage: key -> [word, wr]
    islot,            \* GetProof input: mapping index
    block,            \* GetProof input: target block
    oracle,           \* raw balanceOf(holder)
    pc,               \* position in the running operation
    cancelled,        \* the caller's context is done
    i,                \* loop variable of either operation
    checkPointsSize,  \* last array size read
    mblock,           \* GetProof: block of the last checkpoint
    slot,             \* GetProof: key of the last checkpoint
    prevSlot,         \* GetProof: key of the entry read at i - 1
    keys,             \* GetProof: keys handed to the proof fetch
    balance,          \* DiscoverSlot: holder's balance
    amount,           \* DiscoverSlot: balance decoded last
    readPositions,    \* positions passed to getMinimeAtPosition so far
    scanned,          \* GetProof: the backward loop body ran
    failed,           \* some remote call of the operation failed
    result            \* what the operation returned

vars == <<storage, islot, block, oracle, pc, cancelled, i, checkPointsSize,
          mblock, slot, prevSlot, keys, balance, amount, readPositions,
          scanned, failed, result>>

\* ---------------------------------------------------------------- storage
GetMapSlot(mapIndexSlot) == [h |-> 1, islot |-> mapIndexSlot, off |-> 0]
HashFromPosition(mapSlot) == [mapSlot EXCEPT !.h = 2]
ArraySlot(mapIndexSlot, position) ==
    [HashFromPosition(GetMapSlot(mapIndexSlot)) EXCEPT !.off = position - 1]
PositionOf(key) == key.off + 1

StorageAt(key, blk) ==
    IF key \notin DOMAIN storage THEN 0
    ELSE IF blk = Nil THEN storage[key].word
    ELSE IF \A b \in blk : storage[key].wr <= b THEN storage[key].word
    ELSE 0

getMinimeArraySize(mapIndexSlot) == StorageAt(GetMapSlot(mapIndexSlot), Nil)

getMinimeAtPosition(mapIndexSlot, position, blk) ==
    LET arraySlot == ArraySlot(mapIndexSlot, position)
        parsed == ParseMinimeValue(StorageAt(arraySlot, blk), Decimals)
    IN  [balance |-> parsed.balance, mblock |-> parsed.mblock, slot |-> arraySlot]

\* Errors getMinimeAtPosition can return: from GetTokenData or from StorageAt.
AtPositionErrs(cause) == {GetTokenDataErr(cause), ClientErr(cause)}

\* What a remote call can do: succeed, fail at the node, or be cancelled.
\* Once the context is done every call fails with the context's error.
Outcomes == IF cancelled THEN {"ctx"} ELSE {"ok", "remote", "ctx"}

NoResult == [index |-> -1, amount |-> NilRat, keys |-> <<>>, err |-> NoErr]

\* The operation returns: GetProof's (proof, err), DiscoverSlot's
\* (index, amount, err).
Return(r) ==
    /\ pc' = "done"
    /\ result' = r
    /\ cancelled' = (cancelled \/ r.err.cause = "ctx")

\* ------------------------------------------------------ planted storage
EmptyStorage == [k \in {} |-> [word |-> 0, wr |-> 0]]

\* A word at a key; the zero word is the absence of the key.
Cell(key, word, wr) ==
    IF word = 0 THEN EmptyStorage ELSE (key :> [word |-> word, wr |-> wr])

\* The checkpoints of the blocks S (in increasing order, bal[b] the balance
\* recorded at block b) at mapping index ms.  wr[b] is the block from which
\* the entry of block b is visible: b itself on an archive node, 0 for an
\* entry of a fixture that answers every block alike.
CheckpointCells(ms, S, bal, wr) ==
    LET rank(b) == Cardinality({x \in S : x <= b})
        blockAt(k) == CHOOSE b \in S : rank(b) = PositionOf(k)
    IN  [k \in {ArraySlot(ms, rank(b)) : b \in S} |->
            [word |-> PackMinimeValue(bal[blockAt(k)], blockAt(k)),
             wr   |-> wr[blockAt(k)]]]

\* The word stored right before the array (offset -1): unrelated storage.
Unrelated == {0, PackMinimeValue(1, 90)}

\* Storages GetProof runs against: a checkpoint array of at most MaxCount
\* entries at index ms whose length word counts all of its entries or all
\* but the last (an entry past the length word is what a fixture plants to
\* put a non-empty word where the proof of nil is read).
ProofStorages(ms) ==
    UNION { UNION { { Cell(GetMapSlot(ms), len, 0)
                        @@ CheckpointCells(ms, S, bal, wr)
                        @@ Cell(ArraySlot(ms, 0), u, 0) :
                      len \in {Cardinality(S)} \cup ({Cardinality(S) - 1} \ {-1}),
                      u \in Unrelated,
                      wr \in {w \in [S -> CheckpointBlocks \cup {0}] :
                                \A b \in S : w[b] \in {0, b}} }
                    : bal \in [S -> Balances] }
            : S \in SUBSET CheckpointBlocks }

\* ---------------------------------------------------------------- GetProof
InitGetProof ==
    /\ islot = 0
    /\ storage \in ProofStorages(0)
    /\ block \in TargetBlocks
    /\ oracle = 0
    /\ pc = "getMinimeArraySize"
    /\ cancelled = FALSE
    /\ i = 0
    /\ checkPointsSize = 0
    /\ mblock = 0
    /\ slot = GetMapSlot(0)
    /\ prevSlot = GetMapSlot(0)
    /\ keys = <<>>
    /\ balance = NilRat
    /\ amount = NilRat
    /\ readPositions = {}
    /\ scanned = FALSE
    /\ failed = FALSE
    /\ result = NoResult

\* minime.go:94-97
GetProofArraySize ==
    /\ pc = "getMinimeArraySize"
    /\ \E o \in Outcomes :
         /\ failed' = (failed \/ o # "ok")
         /\ IF o = "ok"
            THEN /\ checkPointsSize' = getMinimeArraySize(islot)
                 /\ pc' = "lastCheckpoint"
                 /\ UNCHANGED <<result, cancelled>>
            ELSE /\ Return([NoResult EXCEPT !.err = ClientErr(o)])
                 /\ UNCHANGED checkPointsSize
    /\ UNCHANGED <<storage, islot, block, oracle, i, mblock, slot, prevSlot,
                   keys, balance, amount, readPositions, scanned>>

\* The loop of minime.go:116 from index j on: its body runs while j > 0,
\* and with no keys the operation ends at minime.go:140-142.
ScanFrom(j) ==
    /\ i' = j
    /\ IF j > 0
       THEN pc' = "scanPrev" /\ UNCHANGED <<result, cancelled>>
       ELSE Return([NoResult EXCEPT !.err = ErrCheckpointNotFound])

\* minime.go:102-106 and, when the first branch is not taken, 115-116
GetProofLastCheckpoint ==
    /\ pc = "lastCheckpoint"
    /\ \E o \in Outcomes :
         /\ failed' = (failed \/ o # "ok")
         /\ IF o = "ok"
            THEN LET r == getMinimeAtPosition(islot, checkPointsSize, {block})
                 IN  /\ mblock' = r.mblock
                     /\ slot' = r.slot
                     /\ readPositions' = readPositions \cup {checkPointsSize}
                     /\ IF block >= r.mblock
                        THEN /\ pc' = "proofOfNil"
                             /\ UNCHANGED <<i, result, cancelled>>
                        ELSE ScanFrom(checkPointsSize - 1)
            ELSE /\ \E e \in AtPositionErrs(o) :
                      Return([NoResult EXCEPT !.err = e])
                 /\ UNCHANGED <<mblock, slot, readPositions, i>>
    /\ UNCHANGED <<storage, islot, block, oracle, checkPointsSize, prevSlot,
                   keys, balance, amount, scanned>>

\* minime.go:107-111 reading position checkPointsSize again.
GetProofNil_SamePosition ==
    /\ pc = "proofOfNil"
    /\ \E o \in Outcomes :
         /\ failed' = (failed \/ o # "ok")
         /\ IF o = "ok"
            THEN LET r == getMinimeAtPosition(islot, checkPointsSize, {block})
                 IN  /\ keys' = <<slot, r.slot>>
                     /\ readPositions' = readPositions \cup {checkPointsSize}
                     /\ pc' = "GetProof"
                     /\ UNCHANGED <<result, cancelled>>
            ELSE /\ \E e \in AtPositionErrs(o) :
                      Return([NoResult EXCEPT !.err = e])
                 /\ UNCHANGED <<keys, readPositions>>
    /\ UNCHANGED <<storage, islot, block, oracle, i, checkPointsSize, mblock,
                   slot, prevSlot, balance, amount, scanned>>

\* minime.go:107-111
GetProofNil ==
    /\ pc = "proofOfNil"
    /\ \E o \in Outcomes :
         /\ failed' = (failed \/ o # "ok")
         /\ IF o = "ok"
            THEN LET r == getMinimeAtPosition(islot, checkPointsSize + 1, {block})
                 IN  /\ keys' = <<slot, r.slot>>
                     /\ readPositions' = readPositions \cup {checkPointsSize + 1}
                     /\ pc' = "GetProof"
                     /\ UNCHANGED <<result, cancelled>>
            ELSE /\ \E e \in AtPositionErrs(o) :
                      Return([NoResult EXCEPT !.err = e])
                 /\ UNCHANGED <<keys, readPositions>>
    /\ UNCHANGED <<storage, islot, block, oracle, i, checkPointsSize, mblock,
                   slot, prevSlot, balance, amount, scanned>>

\* minime.go:117-124, and the loop's step when the test of line 124 fails
GetProofScanPrev ==
    /\ pc = "scanPrev"
    /\ scanned' = TRUE
    /\ \E o \in Outcomes :
         /\ failed' = (failed \/ o # "ok")
         /\ IF o = "ok"
            THEN LET r == getMinimeAtPosition(islot, i - 1, {block})
                 IN  /\ prevSlot' = r.slot
                     /\ readPositions' = readPositions \cup {i - 1}
                     /\ IF r.mblock >= block
                        THEN /\ pc' = "scanCurr"
                             /\ UNCHANGED <<i, result, cancelled>>
                        ELSE ScanFrom(i - 1)
            ELSE /\ \E e \in AtPositionErrs(o) :
                      Return([NoResult EXCEPT !.err = e])
                 /\ UNCHANGED <<prevSlot, readPositions, i>>
    /\ UNCHANGED <<storage, islot, block, oracle, checkPointsSize, mblock,
                   slot, keys, balance, amount>>

\* minime.go:125-136
GetProofScanCurr ==
    /\ pc = "scanCurr"
    /\ \E o \in Outcomes :
         /\ failed' = (failed \/ o # "ok")
         /\ IF o = "ok"
            THEN LET r == getMinimeAtPosition(islot, i, {block})
                 IN  /\ readPositions' = readPositions \cup {i}
                     /\ IF RatCmp(r.balance, BalanceToRat(0, 0)) = 1
                        THEN /\ Return([NoResult EXCEPT !.err = ErrNilBalance])
                             /\ UNCHANGED keys
                        ELSE IF r.mblock > 0
                        THEN /\ Return([NoResult EXCEPT !.err = ErrNilBlock])
                             /\ UNCHANGED keys
                        ELSE /\ keys' = <<prevSlot, r.slot>>
                             /\ pc' = "GetProof"
                             /\ UNCHANGED <<result, cancelled>>
            ELSE /\ \E e \in AtPositionErrs(o) :
                      Return([NoResult EXCEPT !.err = e])
                 /\ UNCHANGED <<keys, readPositions>>
    /\ UNCHANGED <<storage, islot, block, oracle, i, checkPointsSize, mblock,
                   slot, prevSlot, balance, amount, scanned>>

\* erc20token.go:113-133, called at minime.go:144
GetProof ==
    /\ pc = "GetProof"
    /\ \E o \in Outcomes :
         /\ failed' = (failed \/ o # "ok")
         /\ IF o = "ok"
            THEN Return([NoResult EXCEPT !.keys = keys])
            ELSE Return([NoResult EXCEPT !.err = ClientErr(o)])
    /\ UNCHANGED <<storage, islot, block, oracle, i, checkPointsSize, mblock,
                   slot, prevSlot, keys, balance, amount, readPositions, scanned>>

NextGetProof ==
    \/ GetProofArraySize
    \/ GetProofLastCheckpoint
    \/ GetProofNil
    \/ GetProofScanPrev
    \/ GetProofScanCurr
    \/ GetProof

SpecGetProof == InitGetProof /\ [][NextGetProof]_vars

\* ------------------------------------------------------------ DiscoverSlot
\* What a mapping index can hold for a holder of balance o: a length word
\* and the word at position len (for len = 0 that is the unrelated word
\* before the array).  The word decodes to the balance o, or is the last
\* checkpoint of an array recording another balance.
Candidates(o) ==
    {c \in [len : 0..1, bal : Balances, blk : {0, 70}] :
        /\ c # [len |-> 0, bal |-> 0, blk |-> 0]
        /\ (c.bal = o \/ (c.len = 1 /\ c.blk # 0))}

CandidateCells(idx, c) ==
    Cell(GetMapSlot(idx), c.len, 0)
        @@ Cell(ArraySlot(idx, c.len), PackMinimeValue(c.bal, c.blk), 0)

\* Storages DiscoverSlot runs against: at most two mapping indices of
\* 0..MaxSlot hold something, every other index is empty.
DiscoverStorages(o) ==
    {EmptyStorage}
        \cup {CandidateCells(a, ca) : a \in 0..MaxSlot, ca \in Candidates(o)}
        \cup {CandidateCells(ab[1], ca) @@ CandidateCells(ab[2], cb) :
                ab \in {x \in (0..MaxSlot) \X (0..MaxSlot) : x[1] < x[2]},
                ca \in Candidates(o), cb \in Candidates(o)}

InitDiscoverSlot ==
    /\ islot = 0
    /\ oracle \in Balances
    /\ storage \in DiscoverStorages(oracle)
    /\ block = 0
    /\ pc = "Balance"
    /\ cancelled = FALSE
    /\ i = 0
    /\ checkPointsSize = 0
    /\ mblock = 0
    /\ slot = GetMapSlot(0)
    /\ prevSlot = GetMapSlot(0)
    /\ keys = <<>>
    /\ balance = NilRat
    /\ amount = NilRat
    /\ readPositions = {}
    /\ scanned = FALSE
    /\ failed = FALSE
    /\ result = NoResult

\* erc20token.go:79-89, called at minime.go:37-40; then the loop is entered
Balance ==
    /\ pc = "Balance"
    /\ \E o \in Outcomes :
         /\ failed' = (failed \/ o # "ok")
         /\ IF o = "ok"
            THEN /\ balance' = BalanceToRat(oracle, Decimals)
                 /\ pc' = "discoverSize"
                 /\ UNCHANGED <<result, cancelled>>
            ELSE /\ Return([NoResult EXCEPT !.err = ClientErr(o)])
                 /\ UNCHANGED balance
    /\ UNCHANGED <<storage, islot, block, oracle, i, checkPointsSize, mblock,
                   slot, prevSlot, keys, amount, readPositions, scanned>>

\* "continue" in the loop of minime.go:48: the next candidate, or past the
\* last one the return of minime.go:76-78 (index is still -1).
Continue ==
    /\ i' = i + 1
    /\ IF i + 1 < maxIterationsForDiscover
       THEN pc' = "discoverSize" /\ UNCHANGED result
       ELSE pc' = "done" /\ result' = [NoResult EXCEPT !.err = ErrSlotNotFound]

\* minime.go:49-55 without the test of line 53.
DiscoverArraySize_NoSizeTest ==
    /\ pc = "discoverSize"
    /\ \E o \in Outcomes :
         /\ failed' = (failed \/ o # "ok")
         /\ IF o = "ok"
            THEN /\ checkPointsSize' = getMinimeArraySize(i)
                 /\ UNCHANGED cancelled
                 /\ pc' = "discoverAtPosition" /\ UNCHANGED <<i, result>>
            ELSE /\ Return([NoResult EXCEPT !.index = 0, !.err = ClientErr(o)])
                 /\ UNCHANGED <<checkPointsSize, i>>
    /\ UNCHANGED <<storage, islot, block, oracle, mblock, slot, prevSlot, keys,
                   balance, amount, readPositions, scanned>>

\* minime.go:49-55
DiscoverArraySize ==
    /\ pc = "discoverSize"
    /\ \E o \in Outcomes :
         /\ failed' = (failed \/ o # "ok")
         /\ IF o = "ok"
            THEN /\ checkPointsSize' = getMinimeArraySize(i)
                 /\ UNCHANGED cancelled
                 /\ IF getMinimeArraySize(i) <= 0
                    THEN Continue
                    ELSE pc' = "discoverAtPosition" /\ UNCHANGED <<i, result>>
            ELSE /\ Return([NoResult EXCEPT !.index = 0, !.err = ClientErr(o)])
                 /\ UNCHANGED <<checkPointsSize, i>>
    /\ UNCHANGED <<storage, islot, block, oracle, mblock, slot, prevSlot, keys,
                   balance, amount, readPositions, scanned>>

\* minime.go:57-75 without the test of line 66.
DiscoverAtPosition_NoBlockTest ==
    /\ pc = "discoverAtPosition"
    /\ \E o \in Outcomes :
         /\ failed' = (failed \/ o # "ok")
         /\ IF o = "ok"
            THEN LET r == getMinimeAtPosition(i, checkPointsSize, Nil)
                 IN  /\ amount' = r.balance
                     /\ readPositions' = readPositions \cup {checkPointsSize}
                     /\ IF RatCmp(r.balance, balance) = 0
                        THEN /\ Return([NoResult EXCEPT !.index = i, !.amount = r.balance])
                             /\ UNCHANGED i
                        ELSE Continue /\ UNCHANGED cancelled
            ELSE /\ amount' = NilRat
                 /\ cancelled' = (o = "ctx")
                 /\ Continue
                 /\ UNCHANGED readPositions
    /\ UNCHANGED <<storage, islot, block, oracle, checkPointsSize, mblock, slot,
                   prevSlot, keys, balance, scanned>>

\* minime.go:57-75, and 79 when the balance matches
DiscoverAtPosition ==
    /\ pc = "discoverAtPosition"
    /\ \E o \in Outcomes :
         /\ failed' = (failed \/ o # "ok")
         /\ IF o = "ok"
            THEN LET r == getMinimeAtPosition(i, checkPointsSize, Nil)
                 IN  /\ amount' = r.balance
                     /\ readPositions' = readPositions \cup {checkPointsSize}
                     /\ IF r.mblock = 0
                        THEN Continue /\ UNCHANGED cancelled
                        ELSE IF RatCmp(r.balance, balance) = 0
                        THEN /\ Return([NoResult EXCEPT !.index = i, !.amount = r.balance])
                             /\ UNCHANGED i
                        ELSE Continue /\ UNCHANGED cancelled
            ELSE /\ amount' = NilRat
                 /\ cancelled' = (o = "ctx")
                 /\ Continue
                 /\ UNCHANGED readPositions
    /\ UNCHANGED <<storage, islot, block, oracle, checkPointsSize, mblock, slot,
                   prevSlot, keys, balance, scanned>>

NextDiscoverSlot ==
    \/ Balance
    \/ DiscoverArraySize
    \/ DiscoverAtPosition

SpecDiscoverSlot == InitDiscoverSlot /\ [][NextDiscoverSlot]_vars

\* ================================================================ claims
DISCOVERY_LIMIT == 20

Done == pc = "done"
Succeeded == Done /\ result.err = NoErr
\* The operation ended with a failure of a remote call (node or context).
RemoteFailure == Done /\ result.err.cause \in Causes

\* The checkpoint array GetProof is asked about, as the storage holds it.
Count == getMinimeArraySize(islot)
WordAt(p) == StorageAt(ArraySlot(islot, p), Nil)
EntryLatest(p) == ParseMinimeValue(WordAt(p), Decimals)
WordAsOf(p) == StorageAt(ArraySlot(islot, p), {block})
EntryAsOf(p) == ParseMinimeValue(WordAsOf(p), Decimals)
KeyPair(p) == <<ArraySlot(islot, p), ArraySlot(islot, p + 1)>>

\* Entries 1..Count are checkpoints of strictly increasing blocks and
\* nothing is stored past them.
ProperArray ==
    /\ \A p \in 1..Count : WordAt(p) # 0 /\ EntryLatest(p).mblock # 0
    /\ \A p \in 1..(Count - 1) : EntryLatest(p).mblock < EntryLatest(p + 1).mblock
    /\ \A p \in (Count + 1)..(MaxCount + 1) : WordAt(p) = 0
\* Every entry is visible exactly from its own block on.
ArchiveReads ==
    \A p \in 1..Count : storage[ArraySlot(islot, p)].wr = EntryLatest(p).mblock

\* C1: for a well-formed append-only array read as of the target block, a
\* successful GetProof hands over the keys of adjacent positions (p, p+1)
\* where entry p is a checkpoint of a block <= target and entry p+1 is
\* empty or of a block > target.
C1_KeysBracketTarget ==
    (ProperArray /\ ArchiveReads /\ Count >= 1 /\ EntryLatest(1).mblock <= block
        /\ Succeeded) =>
        \E p \in 0..(MaxCount + 1) :
            /\ result.keys = KeyPair(p)
            /\ WordAt(p) # 0
            /\ EntryLatest(p).mblock <= block
            /\ (WordAt(p + 1) = 0 \/ EntryLatest(p + 1).mblock > block)

\* C2: with count >= 2 and block[p] <= target < block[p+1] for consecutive
\* checkpoints p, p+1, GetProof selects the keys of (p, p+1).
C2_SelectsConsecutivePair ==
    (ProperArray /\ Count >= 2 /\ Done /\ ~RemoteFailure) =>
        \A p \in 1..(Count - 1) :
            (EntryLatest(p).mblock <= block /\ block < EntryLatest(p + 1).mblock)
                => (result.err = NoErr /\ result.keys = KeyPair(p))

\* C3: when the target block is >= the block of the entry at position count
\* read as of the target block, GetProof never enters the backward scan and
\* the pair it selects, hands to the proof fetch and returns is
\* (count, count+1); it ends otherwise only with a failed remote call.
C3_LastCheckpointPair ==
    (block >= EntryAsOf(Count).mblock) =>
        /\ ~scanned
        /\ pc \notin {"scanPrev", "scanCurr"}
        /\ (pc = "GetProof" => keys = KeyPair(Count))
        /\ (Done => \/ (result.err = NoErr /\ result.keys = KeyPair(Count))
                    \/ RemoteFailure)

\* The example of C3: the single checkpoint [100], target 105, keys (1, 2),
\* position 2 empty.
C3_Witness ==
    /\ Succeeded
    /\ ProperArray
    /\ Count = 1
    /\ EntryLatest(1).mblock = 100
    /\ block = 105
    /\ result.keys = KeyPair(1)
    /\ WordAsOf(2) = 0

\* C4: for a non-empty array whose checkpoints are all of blocks > target,
\* GetProof ends with "checkpoint not found".
C4_OlderThanAllNotFound ==
    (ProperArray /\ Count >= 1 /\ Done /\ ~RemoteFailure
        /\ \A p \in 1..Count : EntryLatest(p).mblock > block)
        => result.err = ErrCheckpointNotFound

\* C5: the second key of every successful GetProof (on a non-empty array)
\* is the key of a word that reads, as of the target block, as the empty
\* checkpoint (balance 0, block 0).
C5_ProofOfNilIsEmpty ==
    (Succeeded /\ Count >= 1) =>
        LET nil == ParseMinimeValue(StorageAt(result.keys[2], {block}), Decimals)
        IN  nil.balance.num = 0 /\ nil.mblock = 0

\* C10: GetProof reads and emits only positions 1..count+1, and emits no
\* key pair for an empty array.
C10_PositionsOneBased ==
    /\ \A p \in readPositions : 1 <= p /\ p <= Count + 1
    /\ Succeeded =>
         /\ \A n \in 1..Len(result.keys) :
               1 <= PositionOf(result.keys[n]) /\ PositionOf(result.keys[n]) <= Count + 1
         /\ Count # 0

\* The holder's balance as DiscoverSlot compares it.
OracleBalance == BalanceToRat(oracle, Decimals)
\* The word at position len of mapping index k, read at the latest block.
TopOf(k) == getMinimeAtPosition(k, getMinimeArraySize(k), Nil)
\* Index k holds an array whose last checkpoint is the holder's balance.
Matches(k) ==
    /\ getMinimeArraySize(k) # 0
    /\ TopOf(k).mblock # 0
    /\ RatCmp(TopOf(k).balance, OracleBalance) = 0
\* Index k decodes to the holder's balance without being such an array.
Coincides(k) ==
    /\ RatCmp(TopOf(k).balance, OracleBalance) = 0
    /\ TopOf(k).slot \in DOMAIN storage
    /\ (getMinimeArraySize(k) = 0 \/ TopOf(k).mblock = 0)
FoundAt(k) == [NoResult EXCEPT !.index = k, !.amount = OracleBalance]

\* C6 as stated: with all remote reads succeeding, DiscoverSlot returns k
\* and the matched balance for every matching index k below the limit,
\* whatever the other indices hold.
C6_ReturnsPlantedIndex ==
    (Done /\ ~failed) =>
        \A k \in 0..(DISCOVERY_LIMIT - 1) : Matches(k) => result = FoundAt(k)

\* C6 amended: with all remote reads succeeding, DiscoverSlot returns k and
\* the matched balance for the least matching index k below the limit.
C6_ReturnsFirstMatch ==
    (Done /\ ~failed) =>
        \A k \in 0..(DISCOVERY_LIMIT - 1) :
            (Matches(k) /\ \A j \in 0..(k - 1) : ~Matches(j)) => result = FoundAt(k)

\* The array sits at the last candidate and a lower index holds a longer
\* story that does not match.
C6_Witness ==
    /\ Done /\ ~failed
    /\ Matches(DISCOVERY_LIMIT - 1)
    /\ result = FoundAt(DISCOVERY_LIMIT - 1)
    /\ \E j \in 0..(DISCOVERY_LIMIT - 2) : getMinimeArraySize(j) # 0 /\ ~Matches(j)

\* C7: when no index below the limit matches, DiscoverSlot ends with
\* (-1, nil, ErrSlotNotFound) after the last candidate, or with the failure
\* of the balance call or of a length read; never with an index.
C7_NoMatchSlotNotFound ==
    (Done /\ \A k \in 0..(DISCOVERY_LIMIT - 1) : ~Matches(k)) =>
        \/ /\ result = [NoResult EXCEPT !.err = ErrSlotNotFound]
           /\ i = DISCOVERY_LIMIT
        \/ RemoteFailure

\* Nothing failed, an index below the limit holds a non-matching array and
\* the index right past the limit holds a matching one.
C7_Witness ==
    /\ Done /\ ~failed
    /\ result.err = ErrSlotNotFound
    /\ \E k \in 0..(DISCOVERY_LIMIT - 1) : getMinimeArraySize(k) # 0 /\ TopOf(k).mblock # 0
    /\ Matches(DISCOVERY_LIMIT)

\* C8: the index DiscoverSlot returns on success has a non-zero length word
\* and a top entry of a non-zero block.
C8_NeverSelectsEmptyOrBlockZero ==
    Succeeded =>
        /\ getMinimeArraySize(result.index) # 0
        /\ TopOf(result.index).mblock # 0

\* Both kinds of coincidence were passed over: an index of length 0 and an
\* index whose top entry has block 0, each decoding to the holder's balance.
C8_Witness ==
    /\ Done /\ ~failed
    /\ \E j \in 0..(DISCOVERY_LIMIT - 1) : Coincides(j) /\ getMinimeArraySize(j) = 0
    /\ \E j \in 0..(DISCOVERY_LIMIT - 1) : Coincides(j) /\ getMinimeArraySize(j) # 0

\* C9: an operation whose context was cancelled while it ran ends with the
\* cancellation, not with a domain error and not with a success.
C9_CancelledReportsCancellation ==
    (Done /\ cancelled) => result.err.cause = "ctx"

====
